---- MODULE Spec2Model ----
(***************************************************************************)
(* Codec layer of contangle-zkcp (zkp/src/utils.rs): the plaintext codec   *)
(* (bytes <-> field-element chunks), the ciphertext codec (group element,  *)
(* field element) <-> bytes, and the key artifact store (circuit.pk and    *)
(* circuit.vk under a directory).                                          *)
(*                                                                         *)
(* Bytes are integers 0..255 and buffers are sequences of bytes.  A field  *)
(* element of the base field (ark_ed_on_bls12_381::Fq, the field the       *)
(* tests instantiate the codec with) is represented by its canonical       *)
(* 32-byte little-endian encoding, an integer below the modulus.           *)
(***************************************************************************)
EXTENDS Integers, Sequences, FiniteSets, TLC

VARIABLES
    \* plaintext codec: one round trip of a caller's buffer
    input,      \* the byte buffer handed to bytes_to_plaintext_chunks
    chunks,     \* its result: [ok |-> BOOLEAN, val |-> Seq(field element)]
    output,     \* result of plaintext_chunks_to_bytes: [ok, val]
    ppc,        \* "start" | "encoded" | "decoded" | "failed"
    \* ciphertext codec: one ciphertext sent over a transport
    ct,         \* the ciphertext handed to ciphertext_to_bytes: [c1, c2]
    wire,       \* the bytes in transit
    cut,        \* whether the transport has shortened them
    decoded,    \* result of ciphertext_from_bytes: [ok, val]
    cpc,        \* "start" | "wire" | "decoded"
    \* key artifact store: a directory and the calls working on it
    files,      \* path -> [exists |-> BOOLEAN, data |-> bytes]
    wpc,        \* position of each write_artifacts_json call
    wargs,      \* its arguments [pk, vk]
    wbuf,       \* its locals [pk |-> pk_buf, vk |-> vk_buf]
    wret,       \* what it returned
    wsnap,      \* the directory as it was when the call began
    clean,      \* whether nothing else wrote to the directory since then
    order,      \* the calls that returned Ok, first to last
    lastOk,     \* arguments of the last call that returned Ok with no
                \* other write during or after it, or NoKeys
    serialized, \* whether the caller lets one call end before the next begins
    tampered,   \* whether something else has rewritten a stored file
    rd          \* the read_proving_key / read_verifying_key call that has
                \* just returned, or NoRead

pvars == <<input, chunks, output, ppc>>
cvars == <<ct, wire, cut, decoded, cpc>>
kvars == <<files, wpc, wargs, wbuf, wret, wsnap, clean, order, lastOk,
           serialized, tampered, rd>>
vars  == <<pvars, cvars, kvars>>

----------------------------------------------------------------------------
(* Bounds of the model *)

\* number of further groups a caller's buffer holds after its prefix
MaxGroups == 2

\* capacity of the internal buffer of BufReader and BufWriter, in 32-byte
\* chunks.  std::io's DEFAULT_BUF_SIZE is 8192 bytes, 256 chunks; the model
\* keeps it a whole number of chunks and makes it small enough for buffers
\* that exceed it to be enumerated.
BufChunks == 2

----------------------------------------------------------------------------
(* Byte buffers *)

Min(a, b) == IF a < b THEN a ELSE b

\* an Err / a None result
None == [ok |-> FALSE, val |-> << >>]

\* vec![v; n] / [v; n]
Repeat(v, n) == [i \in 1..n |-> v]

Take(s, n) == SubSeq(s, 1, Min(n, Len(s)))

Drop(s, n) == SubSeq(s, Min(n, Len(s)) + 1, Len(s))

\* let mut buf = [0; 32]: the chunk read buffer.  32 bytes is also the width
\* of the canonical encoding of a field element of Fq and of an affine
\* point of JubJub.
ChunkLen == 32

\* the capacity BufReader::new and BufWriter::new give (DEFAULT_BUF_SIZE)
DefaultBufSize == BufChunks * ChunkLen

----------------------------------------------------------------------------
(* The base field: ark_ed_on_bls12_381::Fq, a 255-bit prime field whose     *)
(* canonical encoding is 32 bytes, little-endian.  A field element is the  *)
(* record [repr |-> its 32 little-endian digits], below the modulus.        *)

\* the modulus 0x73eda753299d7d483339d80809a1d80553bda402fffe5bfeffffffff00000001,
\* least significant byte first
FqModulus ==
    << 1, 0, 0, 0, 255, 255, 255, 255, 254, 91, 254, 255, 2, 164, 189, 83,
       5, 216, 161, 9, 8, 216, 57, 51, 72, 125, 157, 41, 83, 167, 237, 115 >>

\* a < b for two little-endian integers of the same width: decided at the
\* most significant position where they differ
LtLE(a, b) ==
    \E i \in 1..Len(a) :
        /\ a[i] < b[i]
        /\ \A j \in (i + 1)..Len(a) : a[j] = b[j]

\* CanonicalDeserialize for Fq over a byte slice: reads the first 32 bytes
\* (an error when fewer are there), and rejects a value that is not below
\* the modulus.  Bytes after the 32nd are not looked at.
FqDeserialize(bytes) ==
    IF Len(bytes) < ChunkLen THEN [ok |-> FALSE, val |-> << >>]
    ELSE LET v == Take(bytes, ChunkLen)
         IN  IF LtLE(v, FqModulus) THEN [ok |-> TRUE, val |-> [repr |-> v]]
             ELSE [ok |-> FALSE, val |-> << >>]

\* Field::from_random_bytes for a 255-bit field: the bits of the last byte
\* above the modulus' bit length are masked away (one bit), then the 32
\* bytes are deserialized; None when the result is not below the modulus.
FromRandomBytes(chunk) ==
    FqDeserialize([chunk EXCEPT ![ChunkLen] = chunk[ChunkLen] % 128])

\* to_bytes!(chunk) and CanonicalSerialize for Fq: the 32 digits of the
\* element, least significant first
ToBytes(fe) == fe.repr

----------------------------------------------------------------------------
(* std::io::BufReader over a byte slice *)

\* BufReader::new(bytes): nothing buffered yet
NewReader(bytes) == [inner |-> bytes, buf |-> << >>]

\* BufReader::read(&mut dst) with dst.len() = n: with an empty internal
\* buffer and n >= capacity the read goes straight to the slice; otherwise
\* the internal buffer is refilled when empty (up to capacity bytes), and
\* min(n, buffered) bytes are handed out.
ReaderRead(r, n) ==
    IF Len(r.buf) = 0 /\ n >= DefaultBufSize
    THEN [got |-> Take(r.inner, n),
          rd  |-> [inner |-> Drop(r.inner, n), buf |-> << >>]]
    ELSE LET filled == IF Len(r.buf) = 0 THEN Take(r.inner, DefaultBufSize) ELSE r.buf
             rest   == IF Len(r.buf) = 0 THEN Drop(r.inner, DefaultBufSize) ELSE r.inner
         IN  [got |-> Take(filled, n),
              rd  |-> [inner |-> rest, buf |-> Drop(filled, n)]]

----------------------------------------------------------------------------
(* bytes_to_plaintext_chunks *)

\* one pass of the loop body: a fresh zeroed 32-byte buf, overwritten from
\* its start by what the read returned
FillBuf(got) == got \o Repeat(0, ChunkLen - Len(got))

\* a read loop that takes a short read for the end of the input
\* (`n != ChunkLen` in place of `n != 0`) and so drops a partial last group;
\* C7_BytesToChunks must reject it
RECURSIVE ReadLoopStopsAtShortRead(_, _)
ReadLoopStopsAtShortRead(r, acc) ==
    LET res == ReaderRead(r, ChunkLen)
    IN  IF Len(res.got) < ChunkLen THEN acc
        ELSE ReadLoopStopsAtShortRead(res.rd, Append(acc, FillBuf(res.got)))

\* the read loop: stops at the first read that returns no byte
RECURSIVE ReadLoop(_, _)
ReadLoop(r, acc) ==
    LET res == ReaderRead(r, ChunkLen)
    IN  IF Len(res.got) = 0 THEN acc
        ELSE ReadLoop(res.rd, Append(acc, FillBuf(res.got)))

\* .map(from_random_bytes).collect::<Option<Vec<_>>>(): None when any is None
BytesToPlaintextChunks(bytes) ==
    LET raw  == ReadLoop(NewReader(bytes), << >>)
        cast == [i \in 1..Len(raw) |-> FromRandomBytes(raw[i])]
    IN  IF \A i \in 1..Len(raw) : cast[i].ok
        THEN [ok |-> TRUE, val |-> [i \in 1..Len(raw) |-> cast[i].val]]
        ELSE [ok |-> FALSE, val |-> << >>]

----------------------------------------------------------------------------
(* std::io::BufWriter over the mutable slice &mut *buf *)

\* BufWriter::new(&mut *buf): an empty internal buffer in front of a slice
\* with room for `room` bytes
NewWriter(room) == [ok |-> TRUE, buf |-> << >>, inner |-> << >>, room |-> room]

\* BufWriter::flush_buf: the buffered bytes go to the slice and the internal
\* buffer is emptied; a slice with no room left takes fewer bytes and the
\* flush ends in the WriteZero error
FlushBuf(w) ==
    IF Len(w.buf) <= w.room
    THEN [w EXCEPT !.inner = @ \o w.buf, !.room = @ - Len(w.buf), !.buf = << >>]
    ELSE [w EXCEPT !.ok = FALSE, !.inner = @ \o Take(w.buf, w.room), !.room = 0,
                   !.buf = Drop(w.buf, w.room)]

\* BufWriter::write(&bytes): the internal buffer is flushed first when the
\* bytes do not fit in what is left of it; bytes as long as the capacity go
\* straight to the slice, shorter ones are appended to the internal buffer
WriterWrite(w, bytes) ==
    LET f == IF Len(w.buf) + Len(bytes) > DefaultBufSize THEN FlushBuf(w) ELSE w
    IN  IF ~f.ok THEN f
        ELSE IF Len(bytes) >= DefaultBufSize
        THEN [f EXCEPT !.inner = @ \o Take(bytes, f.room),
                       !.room = @ - Min(Len(bytes), f.room)]
        ELSE [f EXCEPT !.buf = @ \o bytes]

\* BufWriter::buffer(): the bytes written and not yet flushed
WriterBuffer(w) == w.buf

----------------------------------------------------------------------------
(* plaintext_chunks_to_bytes *)

\* .rev().skip_while(|&b| b == 0) ... reverse(): the bytes up to the last
\* byte that is not zero
RECURSIVE StripTrailingZeros(_)
StripTrailingZeros(bytes) ==
    IF Len(bytes) = 0 \/ bytes[Len(bytes)] # 0 THEN bytes
    ELSE StripTrailingZeros(SubSeq(bytes, 1, Len(bytes) - 1))

\* the for loop: one writer.write per chunk, `?` leaving at the first error
RECURSIVE WriteLoop(_, _, _)
WriteLoop(w, cs, i) ==
    IF i > Len(cs) \/ ~w.ok THEN w
    ELSE WriteLoop(WriterWrite(w, StripTrailingZeros(ToBytes(cs[i]))), cs, i + 1)

PlaintextChunksToBytes(cs) ==
    LET w == WriteLoop(NewWriter(Len(cs) * ChunkLen), cs, 1)
    IN  IF w.ok THEN [ok |-> TRUE, val |-> WriterBuffer(w)]
        ELSE [ok |-> FALSE, val |-> << >>]

----------------------------------------------------------------------------
(* The buffers a caller hands to the plaintext codec *)

\* full 32-byte groups
OnesGroup      == Repeat(1, ChunkLen)
ZeroTailGroup  == <<1>> \o Repeat(0, ChunkLen - 1)
ZeroGroup      == Repeat(0, ChunkLen)
HighBitGroup   == Repeat(1, ChunkLen - 1) \o <<129>>
FFGroup        == Repeat(255, ChunkLen)
\* the largest field element, modulus - 1, and the modulus itself
MaxFqGroup     == [FqModulus EXCEPT ![1] = 0]

FullGroups ==
    { OnesGroup, ZeroTailGroup, ZeroGroup, HighBitGroup, FFGroup,
      MaxFqGroup, FqModulus }

\* a last group shorter than 32 bytes
PartialGroups == { <<1, 2, 3>>, <<1, 0>>, <<7>> }

\* buffers of at most n groups, only the last of which may be partial
RECURSIVE Bodies(_)
Bodies(n) ==
    IF n = 0 THEN { << >> }
    ELSE LET shorter == Bodies(n - 1)
             whole   == { b \in shorter : Len(b) % ChunkLen = 0 }
         IN  shorter \cup { b \o g : b \in whole, g \in FullGroups \cup PartialGroups }

\* a run of k groups of ones (the buffer of test_large_plaintext_decode,
\* which is vec![1; 64], is OnesRun(2))
OnesRun(k) == Repeat(1, k * ChunkLen)

\* a buffer is a run of ones, empty or about one internal buffer long,
\* followed by up to MaxGroups further groups
PrefixChunks == { 0, BufChunks - 1, BufChunks }

PlainInputs == { OnesRun(k) \o b : k \in PrefixChunks, b \in Bodies(MaxGroups) }

----------------------------------------------------------------------------
(* The curve: JubJub (twisted Edwards over Fq), the curve the tests        *)
(* instantiate the codec with.  A point is [x |-> field element,           *)
(* ypos |-> the sign of y]; the affine encoding is x's 32 bytes with the   *)
(* sign in the top bit of the last byte.                                   *)

Zero32 == Repeat(0, ChunkLen)

\* the neutral element, which serializes as the field's zero with no flag
Identity == [x |-> [repr |-> Zero32], ypos |-> FALSE]

\* ALICE_PK, which test_public_key_decode decodes as a point of JubJub
AlicePkBytes ==
    << 122, 155, 71, 95, 205, 150, 62, 122, 130, 16, 184, 134, 62, 141, 91, 140,
       163, 105, 2, 134, 12, 225, 13, 213, 185, 81, 147, 43, 43, 186, 68, 187 >>

AlicePk ==
    [x |-> [repr |-> [AlicePkBytes EXCEPT ![ChunkLen] = @ % 128]], ypos |-> TRUE]

\* the points of the curve the model knows.  Whether some other x is the
\* abscissa of a point of the subgroup the model cannot tell, so buffers
\* are only ever decoded whose first 32 bytes encode one of these.
KnownPoints == { Identity, AlicePk }

\* CanonicalSerialize for the affine point: x with the sign flag of y
AffineSerialize(pt) ==
    IF pt = Identity THEN Zero32
    ELSE [ToBytes(pt.x) EXCEPT ![ChunkLen] = @ + (IF pt.ypos THEN 128 ELSE 0)]

\* CanonicalDeserialize for the affine point over a byte slice: the first
\* 32 bytes are read (an error when fewer are there; later bytes are not
\* looked at), the flag is taken off the last byte, x must be below the
\* modulus, x = 0 is the neutral element, and any other x must give a point
\* of the prime-order subgroup.
AffineDeserialize(bytes) ==
    IF Len(bytes) < ChunkLen THEN None
    ELSE LET v    == Take(bytes, ChunkLen)
             flag == v[ChunkLen] >= 128
             x    == FqDeserialize([v EXCEPT ![ChunkLen] = @ % 128])
         IN  IF ~x.ok THEN None
             ELSE IF x.val.repr = Zero32 THEN [ok |-> TRUE, val |-> Identity]
             ELSE IF [x |-> x.val, ypos |-> flag] \in KnownPoints
                  THEN [ok |-> TRUE, val |-> [x |-> x.val, ypos |-> flag]]
                  ELSE None

----------------------------------------------------------------------------
(* ciphertext_to_bytes / ciphertext_from_bytes *)

\* let mut buf = vec![0; 48]: the buffer ciphertext.c1 is read into
C1BufLen == 48

\* let mut buf = vec![0; 32]: the buffer ciphertext.c2 is read into
C2BufLen == 32

\* c1's affine encoding followed by c2's encoding
CiphertextToBytes(c) ==
    [ok |-> TRUE, val |-> AffineSerialize(c.c1) \o ToBytes(c.c2)]

\* reader.read(&mut buf) into a zeroed buffer of n bytes: the bytes the
\* read returned, the rest of the buffer left zero; the count is not looked at
ReadInto(r, n) ==
    LET res == ReaderRead(r, n)
    IN  [buf |-> res.got \o Repeat(0, n - Len(res.got)), rd |-> res.rd]

CiphertextFromBytes(bytes) ==
    LET r1 == ReadInto(NewReader(bytes), C1BufLen)
        c1 == AffineDeserialize(r1.buf)
        r2 == ReadInto(r1.rd, C2BufLen)
        c2 == FqDeserialize(r2.buf)
    IN  IF ~c1.ok THEN None
        ELSE IF ~c2.ok THEN None
        ELSE [ok |-> TRUE, val |-> [c1 |-> c1.val, c2 |-> c2.val]]

----------------------------------------------------------------------------
(* Groth16 keys and their canonical encoding.  A key is a struct of curve  *)
(* points and vectors of curve points, serialized field by field, a vector *)
(* as its length followed by its elements; a proving key begins with its   *)
(* verifying key.  The model keeps one point and one vector per key, and   *)
(* one byte per point and per length.                                      *)

\* bytes that encode a curve point; every other byte fails the point check
ValidElems == {1, 2}

SerVec(v) == <<Len(v)>> \o v

\* CanonicalSerialize for VerifyingKey
SerVk(vk) == <<vk.alpha>> \o SerVec(vk.abc)

\* CanonicalSerialize for ProvingKey: the verifying key first
SerPk(pk) == SerVk(pk.vk) \o <<pk.beta>> \o SerVec(pk.h)

\* the deserializers read from the front of a slice and hand back what is
\* left of it: [ok, val, rest]
ParseFail == [ok |-> FALSE, val |-> << >>, rest |-> << >>]

ReadElem(bytes) ==
    IF Len(bytes) = 0 \/ bytes[1] \notin ValidElems THEN ParseFail
    ELSE [ok |-> TRUE, val |-> bytes[1], rest |-> Tail(bytes)]

ReadVec(bytes) ==
    IF Len(bytes) = 0 THEN ParseFail
    ELSE LET n == bytes[1]
         IN  IF Len(bytes) - 1 < n THEN ParseFail
             ELSE IF \E i \in 2..(n + 1) : bytes[i] \notin ValidElems THEN ParseFail
             ELSE [ok |-> TRUE, val |-> SubSeq(bytes, 2, n + 1),
                   rest |-> SubSeq(bytes, n + 2, Len(bytes))]

\* CanonicalDeserialize for VerifyingKey
DeserVk(bytes) ==
    LET a == ReadElem(bytes)
        v == ReadVec(a.rest)
    IN  IF ~a.ok THEN ParseFail
        ELSE IF ~v.ok THEN ParseFail
        ELSE [ok |-> TRUE, val |-> [alpha |-> a.val, abc |-> v.val], rest |-> v.rest]

\* CanonicalDeserialize for ProvingKey
DeserPk(bytes) ==
    LET k == DeserVk(bytes)
        b == ReadElem(k.rest)
        h == ReadVec(b.rest)
    IN  IF ~k.ok THEN ParseFail
        ELSE IF ~b.ok THEN ParseFail
        ELSE IF ~h.ok THEN ParseFail
        ELSE [ok |-> TRUE, val |-> [vk |-> k.val, beta |-> b.val, h |-> h.val],
              rest |-> h.rest]

\* ark_to_bytes: serialize into a fresh Vec
ArkToBytes(kind, key) == IF kind = "pk" THEN SerPk(key) ELSE SerVk(key)

\* ark_from_bytes: O::deserialize(bytes.as_ref()); what the deserializer
\* leaves unread in the slice is dropped with it
ArkFromBytes(kind, bytes) ==
    LET r == IF kind = "pk" THEN DeserPk(bytes) ELSE DeserVk(bytes)
    IN  IF r.ok THEN [ok |-> TRUE, err |-> "", val |-> r.val]
        ELSE [ok |-> FALSE, err |-> "decoding", val |-> << >>]

----------------------------------------------------------------------------
(* The key artifact store *)

PkPath == "circuit.pk"
VkPath == "circuit.vk"
Paths  == {PkPath, VkPath}

Absent == [exists |-> FALSE, data |-> << >>]

\* the two file names exchanged; C4_KeyRoundTrip must reject it
TargetPathSwapped(kind) == IF kind = "pk" THEN VkPath ELSE PkPath

\* the file a call writes its pk_buf / vk_buf to
TargetPath(kind) == IF kind = "pk" THEN PkPath ELSE VkPath

\* circuit.vk written before circuit.pk; C8_WriteOrderPartialVk must
\* reject it
AfterStepVkFirst(pc) ==
    CASE pc = "ser_pk"    -> "ser_vk"
      [] pc = "ser_vk"    -> "create_vk"
      [] pc = "create_vk" -> "write_vk"
      [] pc = "write_vk"  -> "create_pk"
      [] pc = "create_pk" -> "write_pk"
      [] pc = "write_pk"  -> "done"

\* the verifying key serialized only after circuit.pk is written;
\* C10_SerializeBeforeWrite must reject it
AfterStepLateSerialize(pc) ==
    CASE pc = "ser_pk"    -> "create_pk"
      [] pc = "create_pk" -> "write_pk"
      [] pc = "write_pk"  -> "ser_vk"
      [] pc = "ser_vk"    -> "create_vk"
      [] pc = "create_vk" -> "write_vk"
      [] pc = "write_vk"  -> "done"

\* the statements of write_artifacts_json in the order the code runs them;
\* fs::write is File::create (open, create, truncate) and then write_all
AfterStep(pc) ==
    CASE pc = "ser_pk"    -> "ser_vk"
      [] pc = "ser_vk"    -> "create_pk"
      [] pc = "create_pk" -> "write_pk"
      [] pc = "write_pk"  -> "create_vk"
      [] pc = "create_vk" -> "write_vk"
      [] pc = "write_vk"  -> "done"

\* a file opened without truncation, which keeps what it held;
\* C9_SerializedLastWins must reject it
CreatedFileKeepsData(old) == [exists |-> TRUE, data |-> old.data]

\* File::create on a path: the file exists afterwards and is empty
CreatedFile(old) == [exists |-> TRUE, data |-> << >>]

\* write_all at the start of a file just opened: the bytes replace what the
\* file holds from offset 0 on, and what lies beyond them stays
WriteAtStart(old, bytes) == bytes \o Drop(old, Len(bytes))

\* fs::read and the decoding of what was read
ReadKey(kind, file) ==
    IF ~file.exists THEN [ok |-> FALSE, err |-> "io", val |-> << >>]
    ELSE ArkFromBytes(kind, file.data)

\* read_proving_key(path)
ReadProvingKey(file) == ReadKey("pk", file)

\* read_verifying_key(path)
ReadVerifyingKey(file) == ReadKey("vk", file)

\* the two calls a caller may have running on the directory
Writers == {1, 2}

\* the key pairs circuit compilation hands over: a proving key and the
\* verifying key inside it
KeyPairA ==
    LET vk == [alpha |-> 1, abc |-> <<1>>]
    IN  [pk |-> [vk |-> vk, beta |-> 2, h |-> << >>], vk |-> vk]

KeyPairB ==
    LET vk == [alpha |-> 2, abc |-> <<2, 1>>]
    IN  [pk |-> [vk |-> vk, beta |-> 1, h |-> <<2>>], vk |-> vk]

KeyPairs == {KeyPairA, KeyPairB}

NoKeys == [pk |-> << >>, vk |-> << >>]
NoRead == [kind |-> "", path |-> "", file |-> Absent, wrote |-> NoKeys,
           res |-> [ok |-> FALSE, err |-> "", val |-> << >>]]

----------------------------------------------------------------------------
(* The three parts of the codec share no state.  Each specification below  *)
(* runs one of them and leaves the other two as they are before any call.  *)

PlainIdle ==
    /\ input = << >>
    /\ chunks = None
    /\ output = None
    /\ ppc = "idle"

CipherIdle ==
    /\ ct = [c1 |-> << >>, c2 |-> << >>]
    /\ wire = << >>
    /\ cut = FALSE
    /\ decoded = None
    /\ cpc = "idle"

\* an empty directory and no call made
KeysStart ==
    /\ files = [p \in Paths |-> Absent]
    /\ wpc = [w \in Writers |-> "idle"]
    /\ wargs = [w \in Writers |-> NoKeys]
    /\ wbuf = [w \in Writers |-> [pk |-> << >>, vk |-> << >>]]
    /\ wret = [w \in Writers |-> ""]
    /\ wsnap = [w \in Writers |-> [p \in Paths |-> Absent]]
    /\ clean = [w \in Writers |-> TRUE]
    /\ order = << >>
    /\ lastOk = NoKeys
    /\ tampered = FALSE
    /\ rd = NoRead

KeysIdle == KeysStart /\ serialized = FALSE

----------------------------------------------------------------------------
(* One ciphertext through the ciphertext codec *)

\* field elements for c2: 0, 1, one with all digits set, the largest
FieldElems ==
    { [repr |-> Zero32], [repr |-> <<1>> \o Repeat(0, ChunkLen - 1)],
      [repr |-> OnesGroup], [repr |-> MaxFqGroup] }

Ciphertexts == [c1 : KnownPoints, c2 : FieldElems]

\* lengths the transport may cut a buffer to: nothing left, or c1's
\* encoding left whole and c2's not
CutLens == {0} \cup (ChunkLen..(2 * ChunkLen - 1))

CipherInit ==
    /\ ct \in Ciphertexts
    /\ wire = << >>
    /\ cut = FALSE
    /\ decoded = None
    /\ cpc = "start"
    /\ PlainIdle
    /\ KeysIdle

\* the sender encodes the ciphertext
EncodeCt ==
    /\ cpc = "start"
    /\ CiphertextToBytes(ct).ok
    /\ wire' = CiphertextToBytes(ct).val
    /\ cpc' = "wire"
    /\ UNCHANGED <<ct, cut, decoded, pvars, kvars>>

\* the transport delivers only the first n bytes
Truncate ==
    /\ cpc = "wire"
    /\ ~cut
    /\ \E n \in CutLens : wire' = Take(wire, n)
    /\ cut' = TRUE
    /\ UNCHANGED <<ct, decoded, cpc, pvars, kvars>>

\* the receiver decodes what arrived
DecodeCt ==
    /\ cpc = "wire"
    /\ decoded' = CiphertextFromBytes(wire)
    /\ cpc' = "decoded"
    /\ UNCHANGED <<ct, wire, cut, pvars, kvars>>

CipherNext == EncodeCt \/ Truncate \/ DecodeCt

CipherSpec == CipherInit /\ [][CipherNext]_vars

\* C2: for every valid ciphertext, decoding its encoding succeeds and gives
\* back a pair equal to it in both components.
C2_CiphertextRoundTrip ==
    (cpc = "decoded" /\ ~cut)
    => ( /\ decoded.ok
         /\ decoded.val.c1 = ct.c1
         /\ decoded.val.c2 = ct.c2 )

\* C3: for every buffer shorter than A+F bytes, ciphertext_from_bytes
\* returns an error, never a ciphertext built from a short read.
C3_ShortBufferRejected ==
    (cpc = "decoded" /\ Len(wire) < Len(AffineSerialize(ct.c1)) + Len(ToBytes(ct.c2)))
    => ~decoded.ok

----------------------------------------------------------------------------
(* One round trip through the plaintext codec *)

PlainInit ==
    /\ input \in PlainInputs
    /\ chunks = None
    /\ output = None
    /\ ppc = "start"
    /\ CipherIdle
    /\ KeysIdle

\* the caller encodes its buffer
Encode ==
    /\ ppc = "start"
    /\ chunks' = BytesToPlaintextChunks(input)
    /\ ppc' = IF chunks'.ok THEN "encoded" ELSE "failed"
    /\ UNCHANGED <<input, output, cvars, kvars>>

\* and decodes the chunks back
Decode ==
    /\ ppc = "encoded"
    /\ output' = PlaintextChunksToBytes(chunks.val)
    /\ ppc' = IF output'.ok THEN "decoded" ELSE "failed"
    /\ UNCHANGED <<input, chunks, cvars, kvars>>

PlainNext == Encode \/ Decode

PlainSpec == PlainInit /\ [][PlainNext]_vars

----------------------------------------------------------------------------
(* Properties of the plaintext codec *)

\* the round trip has run to its end, with a result or an error
PlainDone == ppc \in {"decoded", "failed"}

\* bytes [32*(i-1), min(32*i, n)) of b at the start of a zeroed 32-byte buffer
PaddedGroup(b, i) ==
    [j \in 1..ChunkLen |->
        IF ChunkLen * (i - 1) + j <= Len(b) THEN b[ChunkLen * (i - 1) + j] ELSE 0]

CeilDiv(n, d) == (n + d - 1) \div d

\* the last 32-byte group of a buffer whose length is a multiple of 32
LastGroup(b) == SubSeq(b, Len(b) - ChunkLen + 1, Len(b))

\* each chunk's encoding without its trailing zero bytes, in chunk order
RECURSIVE ConcatStripped(_)
ConcatStripped(cs) ==
    IF Len(cs) = 0 THEN << >>
    ELSE ConcatStripped(SubSeq(cs, 1, Len(cs) - 1))
             \o StripTrailingZeros(ToBytes(cs[Len(cs)]))

\* C1: for every buffer whose length is a multiple of 32 and whose last
\* 32-byte group is not all zero, encoding to chunks and decoding back
\* succeeds and returns exactly the buffer.
C1_PlaintextRoundTrip ==
    ( /\ PlainDone
      /\ Len(input) % ChunkLen = 0
      /\ (Len(input) > 0 => LastGroup(input) # ZeroGroup) )
    => ( /\ chunks.ok
         /\ output.ok
         /\ output.val = input )

\* C6: for every chunk sequence, plaintext_chunks_to_bytes returns the
\* concatenation, in chunk order, of each chunk's 32-byte encoding with its
\* trailing zero bytes removed, also when that exceeds the writer's
\* internal buffer capacity.
C6_ChunksToBytesConcat ==
    (chunks.ok /\ PlainDone)
    => ( /\ output.ok
         /\ output.val = ConcatStripped(chunks.val) )

\* C7: when bytes_to_plaintext_chunks succeeds on a buffer of n bytes, the
\* result has ceil(n/32) chunks, chunk i is the field element of bytes
\* [32*i, min(32*i+32, n)) zero-padded to 32 bytes, and the empty buffer
\* gives the empty sequence.
C7_BytesToChunks ==
    (ppc # "start" /\ chunks.ok)
    => ( /\ Len(chunks.val) = CeilDiv(Len(input), ChunkLen)
         /\ \A i \in 1..Len(chunks.val) :
               /\ FromRandomBytes(PaddedGroup(input, i)).ok
               /\ chunks.val[i] = FromRandomBytes(PaddedGroup(input, i)).val
         /\ (Len(input) = 0 => chunks.val = << >>) )

\* C7's case: a buffer longer than the reader's internal buffer, its last
\* group partial, has been encoded
C7_Witness ==
    /\ ppc = "encoded"
    /\ Len(input) > DefaultBufSize
    /\ Len(input) % ChunkLen # 0

----------------------------------------------------------------------------
(* Calls on the key artifact store *)

KeysInit ==
    /\ KeysStart
    /\ serialized \in BOOLEAN
    /\ PlainIdle
    /\ CipherIdle

Running(w) == wpc[w] \notin {"idle", "done"}

\* the call returns: Ok(()) or the error of the statement that failed
Return(w, result) ==
    /\ wpc' = [wpc EXCEPT ![w] = "done"]
    /\ wret' = [wret EXCEPT ![w] = result]

\* bookkeeping for a write to the directory by `w`: every other call in
\* progress has seen a foreign write, and so has the last finished one
Touched(w) == clean' = [o \in Writers |-> IF o = w THEN clean[o] ELSE FALSE]

\* write_artifacts_json(path, pk, vk) is called; a caller that serializes
\* its calls waits for the one in progress
Call(w) ==
    /\ wpc[w] = "idle"
    /\ serialized => \A o \in Writers : ~Running(o)
    /\ \E kp \in KeyPairs : wargs' = [wargs EXCEPT ![w] = kp]
    /\ wpc' = [wpc EXCEPT ![w] = "ser_pk"]
    /\ wsnap' = [wsnap EXCEPT ![w] = files]
    /\ clean' = [clean EXCEPT ![w] = TRUE]
    /\ rd' = NoRead
    /\ UNCHANGED <<files, wbuf, wret, order, lastOk, serialized, tampered,
                   pvars, cvars>>

\* let pk_buf = ark_to_bytes(pk).map_err(..)?  /  let vk_buf = ..
Serialize(w, kind) ==
    /\ wpc[w] = "ser_" \o kind
    /\ \/ /\ wbuf' = [wbuf EXCEPT ![w][kind] = ArkToBytes(kind, wargs[w][kind])]
          /\ wpc' = [wpc EXCEPT ![w] = AfterStep(wpc[w])]
          /\ UNCHANGED wret
       \/ /\ Return(w, "err_encoding_" \o kind)
          /\ UNCHANGED wbuf
    /\ rd' = NoRead
    /\ UNCHANGED <<files, wargs, wsnap, clean, order, lastOk, serialized,
                   tampered, pvars, cvars>>

SerializePk(w) == Serialize(w, "pk")

SerializeVk(w) == Serialize(w, "vk")

\* fs::write, first half: File::create opens the file, creating it or
\* cutting it to length 0; when that fails nothing has changed
Create(w, kind) ==
    /\ wpc[w] = "create_" \o kind
    /\ \/ /\ files' = [files EXCEPT ![TargetPath(kind)] = CreatedFile(@)]
          /\ wpc' = [wpc EXCEPT ![w] = AfterStep(wpc[w])]
          /\ Touched(w)
          /\ lastOk' = NoKeys
          /\ UNCHANGED wret
       \/ /\ Return(w, "err_write_" \o kind)
          /\ UNCHANGED <<files, clean, lastOk>>
    /\ rd' = NoRead
    /\ UNCHANGED <<wargs, wbuf, wsnap, order, serialized, tampered, pvars, cvars>>

CreatePk(w) == Create(w, "pk")

CreateVk(w) == Create(w, "vk")

\* fs::write, second half: write_all(contents); when it fails, only a part
\* of the buffer has reached the file.  After the write of circuit.vk the
\* call returns Ok(()).
WriteAll(w, kind) ==
    /\ wpc[w] = "write_" \o kind
    /\ LET path == TargetPath(kind)
           buf  == wbuf[w][kind]
       IN  \/ /\ files' = [files EXCEPT ![path].data = WriteAtStart(@, buf)]
              /\ IF AfterStep(wpc[w]) = "done"
                 THEN /\ Return(w, "ok")
                      /\ order' = Append(order, w)
                      /\ lastOk' = IF clean[w] THEN wargs[w] ELSE NoKeys
                 ELSE /\ wpc' = [wpc EXCEPT ![w] = AfterStep(wpc[w])]
                      /\ lastOk' = NoKeys
                      /\ UNCHANGED <<wret, order>>
           \/ /\ \E n \in 0..(Len(buf) - 1) :
                    files' = [files EXCEPT ![path].data = WriteAtStart(@, Take(buf, n))]
              /\ Return(w, "err_write_" \o kind)
              /\ lastOk' = NoKeys
              /\ UNCHANGED order
    /\ Touched(w)
    /\ rd' = NoRead
    /\ UNCHANGED <<wargs, wbuf, wsnap, serialized, tampered, pvars, cvars>>

WritePk(w) == WriteAll(w, "pk")

WriteVk(w) == WriteAll(w, "vk")

\* something other than the store rewrites a file at rest: its last byte is
\* lost, a byte is added at its end, or its first byte is overwritten
Tamper ==
    /\ ~tampered
    /\ \A w \in Writers : ~Running(w)
    /\ \E p \in Paths :
          /\ files[p].exists
          /\ Len(files[p].data) > 0
          /\ \E d \in { SubSeq(files[p].data, 1, Len(files[p].data) - 1),
                        Append(files[p].data, 1),
                        [files[p].data EXCEPT ![1] = 0] } :
                files' = [files EXCEPT ![p].data = d]
    /\ tampered' = TRUE
    /\ clean' = [o \in Writers |-> FALSE]
    /\ lastOk' = NoKeys
    /\ rd' = NoRead
    /\ UNCHANGED <<wpc, wargs, wbuf, wret, wsnap, order, serialized, pvars, cvars>>

\* read_proving_key(path) / read_verifying_key(path) on a path of the
\* directory; the file is left as it is
Read(kind, path) ==
    /\ rd' = [kind |-> kind, path |-> path, file |-> files[path], wrote |-> lastOk,
              res |-> IF kind = "pk" THEN ReadProvingKey(files[path])
                      ELSE ReadVerifyingKey(files[path])]
    /\ UNCHANGED <<files, wpc, wargs, wbuf, wret, wsnap, clean, order, lastOk,
                   serialized, tampered, pvars, cvars>>

ReadPk == \E p \in Paths : Read("pk", p)

ReadVk == \E p \in Paths : Read("vk", p)

KeysNext ==
    \/ \E w \in Writers :
          \/ Call(w)
          \/ SerializePk(w)
          \/ SerializeVk(w)
          \/ CreatePk(w)
          \/ WritePk(w)
          \/ CreateVk(w)
          \/ WriteVk(w)
    \/ Tamper
    \/ ReadPk
    \/ ReadVk

KeysSpec == KeysInit /\ [][KeysNext]_vars

----------------------------------------------------------------------------
(* Properties of the key artifact store *)

\* bytes that are exactly the canonical encoding of some verifying key: a
\* point, a length, and that many points
IsVkEncoding(b) ==
    /\ Len(b) >= 2
    /\ b[1] \in ValidElems
    /\ b[2] = Len(b) - 2
    /\ \A i \in 3..Len(b) : b[i] \in ValidElems

\* bytes that are exactly the canonical encoding of some proving key: a
\* verifying key's encoding, a point, a length, and that many points
IsPkEncoding(b) ==
    \E m \in 2..(Len(b) - 2) :
        /\ IsVkEncoding(SubSeq(b, 1, m))
        /\ b[m + 1] \in ValidElems
        /\ b[m + 2] = Len(b) - m - 2
        /\ \A i \in (m + 3)..Len(b) : b[i] \in ValidElems

IsEncoding(kind, b) == IF kind = "pk" THEN IsPkEncoding(b) ELSE IsVkEncoding(b)

\* the file holds exactly these bytes
Holds(file, bytes) == file.exists /\ file.data = bytes

\* s is a proper prefix of t
StrictPrefix(s, t) == Len(s) < Len(t) /\ s = SubSeq(t, 1, Len(s))

\* C4: after write_artifacts_json(dir, pk, vk) returned Ok with no other
\* write to dir, read_proving_key(dir/circuit.pk) returns a key with pk's
\* canonical encoding and read_verifying_key(dir/circuit.vk) one with vk's.
C4_KeyRoundTrip ==
    rd.wrote # NoKeys =>
        /\ (rd.kind = "pk" /\ rd.path = PkPath)
              => (rd.res.ok /\ SerPk(rd.res.val) = SerPk(rd.wrote.pk))
        /\ (rd.kind = "vk" /\ rd.path = VkPath)
              => (rd.res.ok /\ SerVk(rd.res.val) = SerVk(rd.wrote.vk))

\* C4's case: the proving key is read back after a second call replaced
\* the files of a first one
C4_Witness ==
    /\ rd.kind = "pk"
    /\ rd.path = PkPath
    /\ rd.wrote # NoKeys
    /\ Len(order) = 2
    /\ rd.res.ok

\* C5: read_proving_key and read_verifying_key return an I/O error when the
\* file is missing and a decoding error when its bytes are not a canonical
\* encoding of the expected key type, never a key.
C5_KeyReadErrors ==
    rd.kind # "" =>
        /\ ~rd.file.exists => (~rd.res.ok /\ rd.res.err = "io")
        /\ (rd.file.exists /\ ~IsEncoding(rd.kind, rd.file.data))
              => (~rd.res.ok /\ rd.res.err = "decoding")

\* C8 as stated: circuit.pk is written before circuit.vk (circuit.vk is
\* untouched until circuit.pk holds the new proving key); a failed write
\* of circuit.pk leaves circuit.vk unchanged; a failed write of circuit.vk
\* leaves the new proving key in circuit.pk, beside an old or absent
\* circuit.vk.
C8_WriteOrderOldVk ==
    \A w \in Writers : (clean[w] /\ wpc[w] # "idle") =>
        /\ wpc[w] \in {"ser_pk", "ser_vk", "create_pk", "write_pk"}
              => files[VkPath] = wsnap[w][VkPath]
        /\ (wpc[w] \in {"create_vk", "write_vk"} \/ files[VkPath] # wsnap[w][VkPath])
              => Holds(files[PkPath], SerPk(wargs[w].pk))
        /\ wret[w] = "err_write_pk" => files[VkPath] = wsnap[w][VkPath]
        /\ wret[w] = "err_write_vk"
              => /\ Holds(files[PkPath], SerPk(wargs[w].pk))
                 /\ files[VkPath] = wsnap[w][VkPath]

\* C8 amended: as above, but after a failed write of circuit.vk the file is
\* either unchanged (old or absent) or cut to a proper prefix, possibly
\* empty, of the new verifying key's encoding.
C8_WriteOrderPartialVk ==
    \A w \in Writers : (clean[w] /\ wpc[w] # "idle") =>
        /\ wpc[w] \in {"ser_pk", "ser_vk", "create_pk", "write_pk"}
              => files[VkPath] = wsnap[w][VkPath]
        /\ (wpc[w] \in {"create_vk", "write_vk"} \/ files[VkPath] # wsnap[w][VkPath])
              => Holds(files[PkPath], SerPk(wargs[w].pk))
        /\ wret[w] = "err_write_pk" => files[VkPath] = wsnap[w][VkPath]
        /\ wret[w] = "err_write_vk"
              => /\ Holds(files[PkPath], SerPk(wargs[w].pk))
                 /\ \/ files[VkPath] = wsnap[w][VkPath]
                    \/ /\ files[VkPath].exists
                       /\ StrictPrefix(files[VkPath].data, SerVk(wargs[w].vk))

\* C8's case: the write of circuit.vk failed part-way over an older
\* circuit.vk, and circuit.pk holds the new proving key
C8_Witness ==
    \E w \in Writers :
        /\ clean[w]
        /\ wret[w] = "err_write_vk"
        /\ wsnap[w][VkPath].exists
        /\ files[VkPath] # wsnap[w][VkPath]
        /\ Len(files[VkPath].data) > 0
        /\ Holds(files[PkPath], SerPk(wargs[w].pk))

\* C9: when the caller serializes two calls that both return Ok, the
\* directory ends with the pair of the last call.  (That interleaved calls
\* can leave circuit.pk of one call beside circuit.vk of the other is the
\* state C9_Witness.)
C9_SerializedLastWins ==
    (serialized /\ ~tampered /\ \A w \in Writers : wret[w] = "ok") =>
        LET last == order[Len(order)]
        IN  /\ Holds(files[PkPath], SerPk(wargs[last].pk))
            /\ Holds(files[VkPath], SerVk(wargs[last].vk))

\* C9's hazard: two interleaved calls with different key pairs have both
\* returned Ok, and circuit.pk is the one's while circuit.vk is the other's
C9_Witness ==
    \E a, b \in Writers :
        /\ a # b
        /\ ~serialized /\ ~tampered
        /\ wret[a] = "ok" /\ wret[b] = "ok"
        /\ wargs[a].pk # wargs[b].pk /\ wargs[a].vk # wargs[b].vk
        /\ Holds(files[PkPath], SerPk(wargs[a].pk))
        /\ Holds(files[VkPath], SerVk(wargs[b].vk))

\* the serialized case of C9 happens: two different pairs, both calls Ok
C9_SerializedReached ==
    /\ serialized /\ ~tampered
    /\ \A w \in Writers : wret[w] = "ok"
    /\ wargs[1] # wargs[2]

\* C10: both keys are serialized before the filesystem is touched: while a
\* call is serializing, and after a serialization failed, neither file has
\* been created or modified by it.
C10_SerializeBeforeWrite ==
    \A w \in Writers :
        ( /\ clean[w]
          /\ \/ wpc[w] \in {"ser_pk", "ser_vk"}
             \/ wret[w] \in {"err_encoding_pk", "err_encoding_vk"} )
        => files = wsnap[w]

\* C10's case: serializing the verifying key failed in a directory that
\* already held key files
C10_Witness ==
    \E w \in Writers :
        /\ clean[w]
        /\ wret[w] = "err_encoding_vk"
        /\ wsnap[w][PkPath].exists
        /\ wsnap[w][VkPath].exists

====
